---------------------------- MODULE Spec2Model ----------------------------
(***************************************************************************)
(* A model of the arboretum napari plugin.                                 *)
(*                                                                         *)
(*   - napari_arboretum/plugin.py: the Arboretum dock widget, which keeps  *)
(*     the list of the viewer's Tracks layers, hangs a show_tree mouse     *)
(*     callback on each of them, and the pure function get_property.       *)
(*   - arboretum/core.py: build_plugin_v2, whose button handlers start     *)
(*     background workers (import, localize, track) and add layers to the  *)
(*     viewer when a worker's `returned` signal is delivered.              *)
(*                                                                         *)
(* Three specifications share the module: SpecProp (get_property applied   *)
(* to bounded property tables), SpecPlugin (the widget under layer and     *)
(* mouse events) and SpecCore (the workers of build_plugin_v2).            *)
(***************************************************************************)
EXTENDS Integers, Sequences, FiniteSets, TLC

VARIABLES
    \* ---- get_property applied to an arbitrary layer (SpecProp)
    gp_layer,           \* [properties, color_by] of the layer passed in
    gp_track_id,        \* the track_id passed in
    gp_result,          \* <<done, t values, property values>>
    \* ---- napari_arboretum.plugin.Arboretum (SpecPlugin)
    viewer_layers,      \* self.viewer.layers, a sequence of layers
    tracks_layers,      \* self.tracks_layers
    mouse_drag_callbacks, \* layer -> number of show_tree callbacks appended
    color_connected,    \* layers whose color_by/colormap events are connected
    color_by,           \* layer -> layer.color_by
    plotter_tracks,     \* self.plotter.tracks
    property_plotter_tracks, \* self.property_plotter.tracks
    track_id,           \* self.track_id
    current_step,       \* self.viewer.dims.current_step[0]
    calls,              \* the plotter calls made by the last handler, in order
    last_event,         \* the last event delivered to the widget
    \* ---- arboretum.core.build_plugin_v2 (SpecCore)
    arbor,              \* the fields of the Arboretum widget the closures use
    viewer,             \* [layers, active_layer] of the napari viewer
    workers,            \* worker id -> the worker's position and locals
    returned,           \* queue of `returned` signals awaiting the GUI thread
    main,               \* the GUI thread: the handler it is in, and its trace
    clicks              \* number of button clicks so far

propVars == <<gp_layer, gp_track_id, gp_result>>
pluginVars == <<viewer_layers, tracks_layers, mouse_drag_callbacks,
                color_connected, color_by, plotter_tracks,
                property_plotter_tracks, track_id, current_step, calls,
                last_event>>
coreVars == <<arbor, viewer, workers, returned, main, clicks>>
vars == <<propVars, pluginVars, coreVars>>

-----------------------------------------------------------------------------
(* Values *)

\* Python's None where a layer or a name is expected
None == "None"
\* Python's None where a number is expected: layer.get_value over no track,
\* and self.track_id before the first assignment
NoValue == 0 - 1

\* `if not track_id`: None and 0 are both falsy
Truthy(v) == v # NoValue /\ v # 0

-----------------------------------------------------------------------------
(* Bounds *)

MaxRows == 3          \* rows of a property table
MaxTrackId == 2       \* layer.get_value gives None or 0..MaxTrackId
MaxCallbacks == 2     \* show_tree callbacks appended to one layer
MaxStep == 1          \* viewer.dims.current_step[0] is 0..MaxStep
MaxClicks == 2        \* button clicks, each of which starts a worker

\* the most layers the viewer can come to hold: the segmentation argument's,
\* and a labels layer and two track layers for each click
MaxLayers == 1 + 3 * MaxClicks

TrackIds == 0..MaxTrackId
\* the property tables get_property is applied to: their keys, the track ids
\* and the values in them
Columns == {"track_id", "t", "state"}
TableTrackIds == {1, 2}
TableValues == {0, 1}

-----------------------------------------------------------------------------
(* get_property, plugin.py:107-112 *)

\* pd.DataFrame(layer.properties): a table of equally long columns
PropertyTables ==
    UNION {[track_id : [1..n -> TableTrackIds], t : [1..n -> TableValues],
            state : [1..n -> TableValues]] : n \in 0..MaxRows}

\* the mask of a comparison written the wrong way round
RowMask_not_equal(all_props, id) ==
    [i \in 1..Len(all_props["track_id"]) |-> all_props["track_id"][i] # id]

\* all_props["track_id"] == track_id: the boolean mask over the rows
RowMask(all_props, id) ==
    [i \in 1..Len(all_props["track_id"]) |-> all_props["track_id"][i] = id]

\* all_props.loc[mask]: the row labels the mask keeps, in row order
RECURSIVE LocFrom(_, _)
LocFrom(mask, i) ==
    IF i > Len(mask) THEN <<>>
    ELSE (IF mask[i] THEN <<i>> ELSE <<>>) \o LocFrom(mask, i + 1)

Loc(mask) == LocFrom(mask, 1)

\* all_props[column].values of the kept rows
ColumnValues(all_props, rows, column) ==
    [k \in 1..Len(rows) |-> all_props[column][rows[k]]]

get_property(layer, id) ==
    LET all_props == layer.properties
        rows == Loc(RowMask(all_props, id))
    IN  <<ColumnValues(all_props, rows, "t"),
          ColumnValues(all_props, rows, layer.color_by)>>

-----------------------------------------------------------------------------
(* The layers of the napari viewer the widget is docked in *)

\* the layer objects that exist; a layer can be in the viewer or out of it
Layers == {"T1", "T2", "I1"}

\* isinstance(layer, napari.layers.Tracks)
IsTracks(layer) == layer \in {"T1", "T2"}

\* layer.properties of the Tracks layers
LayerProperties(layer) ==
    IF layer = "T1"
    THEN [track_id |-> <<1, 2, 1>>, t |-> <<0, 0, 1>>, state |-> <<0, 1, 1>>]
    ELSE [track_id |-> <<2, 2>>, t |-> <<0, 1>>, state |-> <<1, 0>>]

\* the layer object show_tree receives
LayerObject(layer) ==
    [properties |-> LayerProperties(layer), color_by |-> color_by[layer]]

Range(s) == {s[i] : i \in 1..Len(s)}

\* the sequences over S without repetition (a layer is in a viewer once)
InjectiveSeqs(S) ==
    UNION {{s \in [1..n -> S] : \A i, j \in 1..n : s[i] = s[j] => i = j}
           : n \in 0..Cardinality(S)}

InsertAt(s, i, x) == SubSeq(s, 1, i - 1) \o <<x>> \o SubSeq(s, i, Len(s))
RemoveAt(s, i) == SubSeq(s, 1, i - 1) \o SubSeq(s, i + 1, Len(s))

RECURSIVE Repeat(_, _)
Repeat(s, n) == IF n = 0 THEN <<>> ELSE s \o Repeat(s, n - 1)

-----------------------------------------------------------------------------
(* Arboretum, plugin.py:23-104 *)

\* one call on self.plotter / self.property_plotter, or the assignment of
\* self.track_id, as the handlers make them
Entry(call, id, t, prop, label) ==
    [call |-> call, id |-> id, t |-> t, prop |-> prop, label |-> label]

\* TreePlotterBase.has_tracks: the plotter has been given a layer
has_tracks(tracks) == tracks # None

\* the comprehension without its isinstance filter
TracksOf_unfiltered(layers) == layers

\* the list comprehension of update_tracks_layers, plugin.py:59-63
TracksOf(layers) == SelectSeq(layers, IsTracks)

\* update_tracks_layers, run on the layer list `changed` event and at the
\* end of __init__, over the layer list as it then is
update_tracks_layers(viewer_now) ==
    LET layers == TracksOf(viewer_now)
        fresh == {layer \in Range(layers) : layer \notin Range(tracks_layers)}
    IN  /\ mouse_drag_callbacks' =
               [layer \in Layers |->
                   IF layer \in fresh THEN mouse_drag_callbacks[layer] + 1
                   ELSE mouse_drag_callbacks[layer]]
        /\ color_connected' = color_connected \cup fresh
        /\ tracks_layers' = layers

\* Arboretum.draw_current_time_line with the plotter holding `tracks`
draw_current_time_line(tracks, z_value) ==
    IF ~has_tracks(tracks) THEN <<>>
    ELSE <<Entry("plotter.draw_current_time_line", z_value, <<>>, <<>>, "")>>

\* show_tree with self.track_id assigned before the tree is drawn and the
\* time line drawn before the property plot
show_tree_reordered(layer, id) ==
    LET series == get_property(LayerObject(layer), id)
    IN  <<Entry("self.track_id", id, <<>>, <<>>, ""),
          Entry("plotter.draw_tree", id, <<>>, <<>>, ""),
          Entry("self.draw_current_time_line", id, <<>>, <<>>, "")>>
        \o draw_current_time_line(layer, current_step)
        \o <<Entry("property_plotter.plot", id, series[1], series[2], ""),
              Entry("property_plotter.set_xlabel", id, <<>>, <<>>, "Time"),
              Entry("property_plotter.set_ylabel", id, <<>>, <<>>, color_by[layer])>>

\* the calls of one run of show_tree(layer, event) past the early return,
\* where layer.get_value(event.position) is id
show_tree(layer, id) ==
    LET series == get_property(LayerObject(layer), id)
    IN  <<Entry("plotter.draw_tree", id, <<>>, <<>>, ""),
          Entry("self.track_id", id, <<>>, <<>>, ""),
          Entry("property_plotter.plot", id, series[1], series[2], ""),
          Entry("property_plotter.set_xlabel", id, <<>>, <<>>, "Time"),
          Entry("property_plotter.set_ylabel", id, <<>>, <<>>, color_by[layer]),
          Entry("self.draw_current_time_line", id, <<>>, <<>>, "")>>
        \o draw_current_time_line(layer, current_step)

Event(event, layer, value, n) ==
    [event |-> event, layer |-> layer, value |-> value, n |-> n]

\* viewer.layers.insert(i, layer), then the `changed` event
InsertLayer(layer, i) ==
    /\ layer \notin Range(viewer_layers)
    /\ i \in 1..Len(viewer_layers) + 1
    /\ (IsTracks(layer) /\ layer \notin Range(tracks_layers))
           => mouse_drag_callbacks[layer] < MaxCallbacks
    /\ viewer_layers' = InsertAt(viewer_layers, i, layer)
    /\ update_tracks_layers(viewer_layers')
    /\ calls' = <<>>
    /\ last_event' = Event("inserted", layer, NoValue, 0)
    /\ UNCHANGED <<propVars, coreVars>>
    /\ UNCHANGED <<color_by, plotter_tracks, property_plotter_tracks,
                   track_id, current_step>>

\* viewer.layers.pop(i), then the `changed` event
RemoveLayer(i) ==
    /\ i \in 1..Len(viewer_layers)
    /\ viewer_layers' = RemoveAt(viewer_layers, i)
    /\ update_tracks_layers(viewer_layers')
    /\ calls' = <<>>
    /\ last_event' = Event("removed", viewer_layers[i], NoValue, 0)
    /\ UNCHANGED <<propVars, coreVars>>
    /\ UNCHANGED <<color_by, plotter_tracks, property_plotter_tracks,
                   track_id, current_step>>

\* a mouse drag on a layer of the viewer: every callback appended to
\* layer.mouse_drag_callbacks runs; get_value gives id at the cursor
Click(layer, id) ==
    /\ layer \in Range(viewer_layers)
    /\ mouse_drag_callbacks[layer] > 0
    /\ plotter_tracks' = layer
    /\ property_plotter_tracks' = layer
    /\ IF Truthy(id)
       THEN /\ calls' = Repeat(show_tree(layer, id), mouse_drag_callbacks[layer])
            /\ track_id' = id
       ELSE /\ calls' = <<>>
            /\ track_id' = track_id
    /\ last_event' = Event("click", layer, id, mouse_drag_callbacks[layer])
    /\ UNCHANGED <<propVars, coreVars>>
    /\ UNCHANGED <<viewer_layers, tracks_layers, mouse_drag_callbacks,
                   color_connected, color_by, current_step>>

\* viewer.dims.events.current_step
StepChanged(z) ==
    /\ z # current_step
    /\ current_step' = z
    /\ calls' = draw_current_time_line(plotter_tracks, z)
    /\ last_event' = Event("current_step", None, z, 0)
    /\ UNCHANGED <<propVars, coreVars>>
    /\ UNCHANGED <<viewer_layers, tracks_layers, mouse_drag_callbacks,
                   color_connected, color_by, plotter_tracks,
                   property_plotter_tracks, track_id>>

\* layer.color_by is set; layer.events.color_by reaches the plotter if the
\* widget connected it (plugin.py:70)
ColorByChanged(layer, column) ==
    /\ IsTracks(layer)
    /\ column # color_by[layer]
    /\ color_by' = [color_by EXCEPT ![layer] = column]
    /\ calls' = IF layer \in color_connected
                THEN <<Entry("plotter.update_edge_colors", NoValue, <<>>, <<>>, "")>>
                ELSE <<>>
    /\ last_event' = Event("color_by", layer, NoValue, 0)
    /\ UNCHANGED <<propVars, coreVars>>
    /\ UNCHANGED <<viewer_layers, tracks_layers, mouse_drag_callbacks,
                   color_connected, plotter_tracks, property_plotter_tracks,
                   track_id, current_step>>

-----------------------------------------------------------------------------
(* build_plugin_v2, core.py:76-208 *)

\* An optional value: Nothing is Python's None, Some(x) any other value
Nothing == <<>>
Some(x) == <<x>>
IsSome(o) == o # Nothing
The(o) == o[1]

\* the files the user can pick for arbor.filename
Files == {"a.h5", "b.h5"}

\* the segmentation argument build_plugin_v2 can be given
SegmentationArguments == {Nothing, Some(<<"seg0">>)}

\* utils.load_hdf(filename): the segmentation (which may be None) and the
\* list of track sets stored in the file
load_hdf(filename) ==
    IF filename = "a.h5"
    THEN [seg |-> Some(<<"a.h5", "seg">>),
          tracks |-> <<<<"a.h5", "tracks0">>, <<"a.h5", "tracks1">>>>]
    ELSE [seg |-> Nothing,
          tracks |-> <<<<"b.h5", "tracks0">>>>]

\* utils.localize(segmentation): the localizations found in a segmentation
localize(segmentation) == <<"localize">> \o segmentation

\* utils.track(localizations, ...): the tracker state of one tracking run
track(localizations) == <<"track">> \o localizations

\* TrackManager(track_set).data
TrackManagerData(track_set) == track_set

\* new_layer_name, core.py:101: f'{s} {arbor.active_layer}'
new_layer_name(base, i) ==
    [base |-> base, i |-> i, active_layer |-> arbor.active_layer]

\* a layer name that does not use new_layer_name
PlainName(base) == [base |-> base, i |-> 0, active_layer |-> 0]

Layer(kind, name, data, editable) ==
    [kind |-> kind, name |-> name, data |-> data, editable |-> editable]

\* viewer.add_labels / add_points / add_layer: napari appends the layers and
\* makes the last one added the active layer
ViewerAdd(v, added) ==
    IF added = <<>> THEN v
    ELSE [layers |-> v.layers \o added,
          active_layer |-> Len(v.layers) + Len(added)]

\* add_segmentation_layer, core.py:104-108: the layers it adds
add_segmentation_layer(editable) ==
    IF IsSome(arbor.segmentation)
    THEN <<Layer("Labels", PlainName("Segmentation"),
                 The(arbor.segmentation), editable)>>
    ELSE <<>>

\* add_localizations_layer, core.py:110-115
add_localizations_layer ==
    IF IsSome(arbor.localizations)
    THEN <<Layer("Points", new_layer_name("Localizations", 0),
                 The(arbor.localizations), TRUE)>>
    ELSE <<>>

\* add_track_layer, core.py:116-128: one Tracks layer per track set of
\* arbor.tracks, in the order of enumerate
add_track_layer ==
    IF IsSome(arbor.tracks)
    THEN [k \in 1..Len(The(arbor.tracks)) |->
             Layer("Tracks", new_layer_name("Tracks", k - 1),
                   TrackManagerData(The(arbor.tracks)[k]), TRUE)]
    ELSE <<>>

\* a worker made by @thread_worker: where its function is, and its locals
Worker(kind) ==
    [kind |-> kind, pc |-> "start", loaded |-> Nothing,
     tracker_state |-> Nothing]

Idle == [pc |-> "idle", handling |-> 0, added |-> <<>>]

\* the user picks a file in the widget's dialog
SetFilename(filename) ==
    /\ main.pc = "idle"
    /\ arbor.filename # Some(filename)
    /\ arbor' = [arbor EXCEPT !.filename = Some(filename)]
    /\ UNCHANGED <<viewer, workers, returned, main, clicks>>
    /\ UNCHANGED <<propVars, pluginVars>>

\* the user selects a layer of the viewer, or none (0)
SelectLayer(i) ==
    /\ main.pc = "idle"
    /\ i \in 0..Len(viewer.layers)
    /\ i # viewer.active_layer
    /\ viewer' = [viewer EXCEPT !.active_layer = i]
    /\ UNCHANGED <<arbor, workers, returned, main, clicks>>
    /\ UNCHANGED <<propVars, pluginVars>>

\* a button click makes a worker, connects its `returned` signal to a
\* handler and starts it
Started(kind) == Append(workers, Worker(kind))

\* arbor.load_button.clicked -> import_objects, core.py:136-150, 197
import_objects ==
    /\ main.pc = "idle"
    /\ clicks < MaxClicks
    /\ clicks' = clicks + 1
    /\ workers' = Started("import")
    /\ UNCHANGED <<arbor, viewer, returned, main>>
    /\ UNCHANGED <<propVars, pluginVars>>

\* arbor.localize_button.clicked -> localize_objects, core.py:154-168, 200
localize_objects ==
    /\ main.pc = "idle"
    /\ clicks < MaxClicks
    /\ clicks' = clicks + 1
    /\ workers' = Started("localize")
    /\ UNCHANGED <<arbor, viewer, returned, main>>
    /\ UNCHANGED <<propVars, pluginVars>>

\* arbor.track_button.clicked -> track_objects, core.py:172-190, 203
track_objects ==
    /\ main.pc = "idle"
    /\ clicks < MaxClicks
    /\ clicks' = clicks + 1
    /\ workers' = Started("track")
    /\ UNCHANGED <<arbor, viewer, returned, main>>
    /\ UNCHANGED <<propVars, pluginVars>>

At(w, kind, pc) ==
    /\ w \in 1..Len(workers)
    /\ workers[w].kind = kind
    /\ workers[w].pc = pc

Goto(w, pc) == workers' = [workers EXCEPT ![w].pc = pc]

\* _import, core.py:143-144
ImportLoad(w) ==
    /\ At(w, "import", "start")
    /\ IF IsSome(arbor.filename)
       THEN workers' = [workers EXCEPT
                ![w].pc = "store_segmentation",
                ![w].loaded = Some(load_hdf(The(arbor.filename)))]
       ELSE Goto(w, "return")
    /\ UNCHANGED <<arbor, viewer, returned, main, clicks>>
    /\ UNCHANGED <<propVars, pluginVars>>

\* _import, core.py:145
ImportStoreSegmentation(w) ==
    /\ At(w, "import", "store_segmentation")
    /\ arbor' = [arbor EXCEPT !.segmentation = The(workers[w].loaded).seg]
    /\ Goto(w, "store_tracks")
    /\ UNCHANGED <<viewer, returned, main, clicks>>
    /\ UNCHANGED <<propVars, pluginVars>>

\* _import, core.py:146
ImportStoreTracks(w) ==
    /\ At(w, "import", "store_tracks")
    /\ arbor' = [arbor EXCEPT !.tracks = Some(The(workers[w].loaded).tracks)]
    /\ Goto(w, "return")
    /\ UNCHANGED <<viewer, returned, main, clicks>>
    /\ UNCHANGED <<propVars, pluginVars>>

\* _localize, core.py:160
LocalizeActiveLayer(w) ==
    /\ At(w, "localize", "start")
    /\ arbor' = [arbor EXCEPT !.active_layer = viewer.active_layer]
    /\ Goto(w, "segmentation")
    /\ UNCHANGED <<viewer, returned, main, clicks>>
    /\ UNCHANGED <<propVars, pluginVars>>

\* _localize, core.py:161: viewer.layers[None] raises, and the worker ends
\* without its `returned` signal
LocalizeSegmentation(w) ==
    /\ At(w, "localize", "segmentation")
    /\ IF viewer.active_layer = 0
       THEN /\ Goto(w, "errored")
            /\ arbor' = arbor
       ELSE /\ Goto(w, "status_on")
            /\ arbor' = [arbor EXCEPT !.segmentation =
                   Some(<<"layer">> \o viewer.layers[viewer.active_layer].data)]
    /\ UNCHANGED <<viewer, returned, main, clicks>>
    /\ UNCHANGED <<propVars, pluginVars>>

\* _localize, core.py:162
LocalizeStatusOn(w) ==
    /\ At(w, "localize", "status_on")
    /\ arbor' = [arbor EXCEPT !.status_label = "Localizing..."]
    /\ Goto(w, "localize")
    /\ UNCHANGED <<viewer, returned, main, clicks>>
    /\ UNCHANGED <<propVars, pluginVars>>

\* _localize, core.py:163: utils.localize reads arbor.segmentation as it
\* now is; over None (stored meanwhile by an import) it raises, and the
\* worker ends without its `returned` signal
LocalizeRun(w) ==
    /\ At(w, "localize", "localize")
    /\ IF IsSome(arbor.segmentation)
       THEN /\ Goto(w, "status_off")
            /\ arbor' = [arbor EXCEPT !.localizations =
                   Some(localize(The(arbor.segmentation)))]
       ELSE /\ Goto(w, "errored")
            /\ arbor' = arbor
    /\ UNCHANGED <<viewer, returned, main, clicks>>
    /\ UNCHANGED <<propVars, pluginVars>>

\* _localize, core.py:164; _track, core.py:186
StatusOff(w) ==
    /\ w \in 1..Len(workers)
    /\ workers[w].pc = "status_off"
    /\ arbor' = [arbor EXCEPT !.status_label = ""]
    /\ Goto(w, "return")
    /\ UNCHANGED <<viewer, returned, main, clicks>>
    /\ UNCHANGED <<propVars, pluginVars>>

\* _track, core.py:178-180
TrackCheck(w) ==
    /\ At(w, "track", "start")
    /\ IF IsSome(arbor.localizations)
       THEN /\ Goto(w, "track")
            /\ arbor' = [arbor EXCEPT !.status_label = "Tracking..."]
       ELSE /\ Goto(w, "return")
            /\ arbor' = arbor
    /\ UNCHANGED <<viewer, returned, main, clicks>>
    /\ UNCHANGED <<propVars, pluginVars>>

\* _track, core.py:181-184
TrackRun(w) ==
    /\ At(w, "track", "track")
    /\ workers' = [workers EXCEPT
           ![w].pc = "store",
           ![w].tracker_state = Some(track(The(arbor.localizations)))]
    /\ UNCHANGED <<arbor, viewer, returned, main, clicks>>
    /\ UNCHANGED <<propVars, pluginVars>>

\* _track, core.py:185
TrackStore(w) ==
    /\ At(w, "track", "store")
    /\ arbor' = [arbor EXCEPT !.tracker_state = workers[w].tracker_state]
    /\ Goto(w, "status_off")
    /\ UNCHANGED <<viewer, returned, main, clicks>>
    /\ UNCHANGED <<propVars, pluginVars>>

\* the worker's function has returned: `returned` is emitted and queued for
\* the GUI thread
WorkerReturn(w) ==
    /\ w \in 1..Len(workers)
    /\ workers[w].pc = "return"
    /\ Goto(w, "returned")
    /\ returned' = Append(returned, w)
    /\ UNCHANGED <<arbor, viewer, main, clicks>>
    /\ UNCHANGED <<propVars, pluginVars>>

Delivered(kind) ==
    /\ main.pc = "idle"
    /\ returned # <<>>
    /\ workers[Head(returned)].kind = kind
    /\ returned' = Tail(returned)

\* add_segmentation_and_track_layers, core.py:131-133, up to the return of
\* add_segmentation_layer()
ReturnedImport ==
    /\ Delivered("import")
    /\ viewer' = ViewerAdd(viewer, add_segmentation_layer(FALSE))
    /\ main' = [pc |-> "add_track_layer", handling |-> Head(returned),
                added |-> add_segmentation_layer(FALSE)]
    /\ UNCHANGED <<arbor, workers, clicks>>
    /\ UNCHANGED <<propVars, pluginVars>>

\* add_segmentation_and_track_layers, core.py:134
ReturnedImportTracks ==
    /\ main.pc = "add_track_layer"
    /\ viewer' = ViewerAdd(viewer, add_track_layer)
    /\ main' = [main EXCEPT !.pc = "idle", !.added = @ \o add_track_layer]
    /\ UNCHANGED <<arbor, workers, returned, clicks>>
    /\ UNCHANGED <<propVars, pluginVars>>

\* worker.returned -> add_localizations_layer, core.py:167
ReturnedLocalize ==
    /\ Delivered("localize")
    /\ viewer' = ViewerAdd(viewer, add_localizations_layer)
    /\ main' = [pc |-> "idle", handling |-> Head(returned),
                added |-> add_localizations_layer]
    /\ UNCHANGED <<arbor, workers, clicks>>
    /\ UNCHANGED <<propVars, pluginVars>>

\* worker.returned -> add_track_layer, core.py:189
ReturnedTrack ==
    /\ Delivered("track")
    /\ viewer' = ViewerAdd(viewer, add_track_layer)
    /\ main' = [pc |-> "idle", handling |-> Head(returned),
                added |-> add_track_layer]
    /\ UNCHANGED <<arbor, workers, clicks>>
    /\ UNCHANGED <<propVars, pluginVars>>

-----------------------------------------------------------------------------
(* Specifications *)

\* the widget after Arboretum.__init__ over a viewer that may hold layers:
\* tracks_layers = [] and then update_tracks_layers() (plugin.py:52-53)
InitPlugin ==
    /\ viewer_layers \in InjectiveSeqs(Layers)
    /\ tracks_layers = TracksOf(viewer_layers)
    /\ mouse_drag_callbacks =
           [layer \in Layers |->
               IF layer \in Range(TracksOf(viewer_layers)) THEN 1 ELSE 0]
    /\ color_connected = Range(TracksOf(viewer_layers))
    /\ color_by = [layer \in Layers |-> "track_id"]
    /\ plotter_tracks = None
    /\ property_plotter_tracks = None
    /\ track_id = NoValue
    /\ current_step = 0
    /\ calls = <<>>
    /\ last_event = Event("__init__", None, NoValue, 0)

\* the widget is not built
IdlePlugin ==
    /\ viewer_layers = <<>>
    /\ tracks_layers = <<>>
    /\ mouse_drag_callbacks = [layer \in Layers |-> 0]
    /\ color_connected = {}
    /\ color_by = [layer \in Layers |-> "track_id"]
    /\ plotter_tracks = None
    /\ property_plotter_tracks = None
    /\ track_id = NoValue
    /\ current_step = 0
    /\ calls = <<>>
    /\ last_event = Event("__init__", None, NoValue, 0)

NextPlugin ==
    \/ \E layer \in Layers, i \in 1..Cardinality(Layers) : InsertLayer(layer, i)
    \/ \E i \in 1..Cardinality(Layers) : RemoveLayer(i)
    \/ \E layer \in Layers, id \in {NoValue} \cup TrackIds : Click(layer, id)
    \/ \E z \in 0..MaxStep : StepChanged(z)
    \/ \E layer \in Layers, column \in Columns : ColorByChanged(layer, column)

\* get_property is about to be applied to a layer and a track id
InitProp ==
    /\ gp_layer \in [properties : PropertyTables, color_by : Columns]
    /\ gp_track_id \in TableTrackIds \cup {3}
    /\ gp_result = [done |-> FALSE, t |-> <<>>, prop |-> <<>>]

IdleProp ==
    /\ gp_layer = [properties |-> [track_id |-> <<>>, t |-> <<>>, state |-> <<>>],
                   color_by |-> "track_id"]
    /\ gp_track_id = 1
    /\ gp_result = [done |-> FALSE, t |-> <<>>, prop |-> <<>>]

\* t, prop = get_property(layer, track_id)
ApplyGetProperty ==
    /\ ~gp_result.done
    /\ gp_result' = [done |-> TRUE,
                     t |-> get_property(gp_layer, gp_track_id)[1],
                     prop |-> get_property(gp_layer, gp_track_id)[2]]
    /\ UNCHANGED <<gp_layer, gp_track_id>>
    /\ UNCHANGED <<pluginVars, coreVars>>

NextProp == ApplyGetProperty

\* the state when build_plugin_v2(viewer, segmentation) returns, core.py:93
\* and 205-208, over a new viewer
InitCore ==
    \E segmentation \in SegmentationArguments :
        /\ arbor = [filename |-> Nothing, segmentation |-> segmentation,
                    tracks |-> Nothing, localizations |-> Nothing,
                    tracker_state |-> Nothing, active_layer |-> 0,
                    status_label |-> ""]
        /\ viewer = ViewerAdd([layers |-> <<>>, active_layer |-> 0],
               IF IsSome(segmentation)
               THEN <<Layer("Labels", PlainName("Segmentation"),
                            The(segmentation), TRUE)>>
               ELSE <<>>)
        /\ workers = <<>>
        /\ returned = <<>>
        /\ main = Idle
        /\ clicks = 0

\* build_plugin_v2 has not been called
IdleCore ==
    /\ arbor = [filename |-> Nothing, segmentation |-> Nothing,
                tracks |-> Nothing, localizations |-> Nothing,
                tracker_state |-> Nothing, active_layer |-> 0,
                status_label |-> ""]
    /\ viewer = [layers |-> <<>>, active_layer |-> 0]
    /\ workers = <<>>
    /\ returned = <<>>
    /\ main = Idle
    /\ clicks = 0

NextCore ==
    \/ \E filename \in Files : SetFilename(filename)
    \/ \E i \in 0..MaxLayers : SelectLayer(i)
    \/ import_objects
    \/ localize_objects
    \/ track_objects
    \/ \E w \in 1..MaxClicks : ImportLoad(w)
    \/ \E w \in 1..MaxClicks : ImportStoreSegmentation(w)
    \/ \E w \in 1..MaxClicks : ImportStoreTracks(w)
    \/ \E w \in 1..MaxClicks : LocalizeActiveLayer(w)
    \/ \E w \in 1..MaxClicks : LocalizeSegmentation(w)
    \/ \E w \in 1..MaxClicks : LocalizeStatusOn(w)
    \/ \E w \in 1..MaxClicks : LocalizeRun(w)
    \/ \E w \in 1..MaxClicks : TrackCheck(w)
    \/ \E w \in 1..MaxClicks : TrackRun(w)
    \/ \E w \in 1..MaxClicks : TrackStore(w)
    \/ \E w \in 1..MaxClicks : StatusOff(w)
    \/ \E w \in 1..MaxClicks : WorkerReturn(w)
    \/ ReturnedImport
    \/ ReturnedImportTracks
    \/ ReturnedLocalize
    \/ ReturnedTrack

StartPlugin == InitPlugin /\ IdleProp /\ IdleCore

SpecPlugin == StartPlugin /\ [][NextPlugin]_vars

StartProp == InitProp /\ IdlePlugin /\ IdleCore

SpecProp == StartProp /\ [][NextProp]_vars

StartCore == InitCore /\ IdleProp /\ IdlePlugin

SpecCore == StartCore /\ [][NextCore]_vars

-----------------------------------------------------------------------------
(* Properties of get_property and of the widget *)

\* the rows of a property table that belong to a track
RowsOfTrack(properties, id) ==
    {i \in 1..Len(properties.track_id) : properties.track_id[i] = id}

\* the k-th smallest element of a set of row numbers
KthRow(rows, k) ==
    CHOOSE i \in rows : Cardinality({j \in rows : j < i}) = k - 1

\* the values of a column over the rows of a track, in row order
SeriesOfTrack(properties, column, id) ==
    [k \in 1..Cardinality(RowsOfTrack(properties, id)) |->
        properties[column][KthRow(RowsOfTrack(properties, id), k)]]

\* C5: get_property(layer, track_id) returns two sequences of equal length,
\* the 't' values and the layer.color_by values of exactly the rows whose
\* 'track_id' equals track_id, in row order; rows of other tracks are left
\* out, and a track with no rows gives two empty sequences.
C5_get_property_selects_track_rows ==
    gp_result.done =>
        /\ Len(gp_result.t) = Len(gp_result.prop)
        /\ Len(gp_result.t) =
               Cardinality(RowsOfTrack(gp_layer.properties, gp_track_id))
        /\ gp_result.t = SeriesOfTrack(gp_layer.properties, "t", gp_track_id)
        /\ gp_result.prop =
               SeriesOfTrack(gp_layer.properties, gp_layer.color_by, gp_track_id)
        /\ (RowsOfTrack(gp_layer.properties, gp_track_id) = {}
               => gp_result.t = <<>> /\ gp_result.prop = <<>>)

\* get_property has returned two rows of a track that has another track's
\* row between them
C5_witness ==
    /\ gp_result.done
    /\ gp_layer.color_by = "state"
    /\ gp_layer.properties.track_id = <<1, 2, 1>>
    /\ gp_track_id = 1
    /\ gp_layer.properties.t = <<0, 1, 1>>
    /\ gp_layer.properties.state = <<1, 1, 0>>
    /\ gp_result.t = <<0, 1>>
    /\ gp_result.prop = <<1, 0>>

\* the position of a layer in the viewer's layer list
IndexIn(layers, layer) == CHOOSE i \in 1..Len(layers) : layers[i] = layer

\* C1: after construction and after every insertion or removal followed by
\* the `changed` event, tracks_layers is exactly the viewer's Tracks layers
\* in viewer order: all of them, each once, nothing removed, nothing else.
C1_tracks_layers_are_viewer_tracks ==
    /\ \A layer \in Layers :
           (layer \in Range(viewer_layers) /\ IsTracks(layer))
               <=> layer \in Range(tracks_layers)
    /\ \A i, j \in 1..Len(tracks_layers) :
           i < j => IndexIn(viewer_layers, tracks_layers[i])
                       < IndexIn(viewer_layers, tracks_layers[j])

\* a Tracks layer has been removed while another Tracks layer and a layer of
\* another type stay in the viewer
C1_witness ==
    /\ last_event.event = "removed"
    /\ IsTracks(last_event.layer)
    /\ Len(tracks_layers) = 1
    /\ \E layer \in Range(viewer_layers) : ~IsTracks(layer)
    /\ mouse_drag_callbacks[last_event.layer] = MaxCallbacks

\* the calls show_tree makes itself (not those made inside
\* Arboretum.draw_current_time_line)
DirectCalls ==
    SelectSeq(calls, LAMBDA e : e.call # "plotter.draw_current_time_line")

\* C2: a click on a registered Tracks layer where get_value is truthy makes
\* show_tree draw the tree of that id, then set self.track_id, then plot the
\* (t, color_by) series of the id, then set the axis labels, and last draw
\* the current time line; afterwards self.track_id is the clicked id.
C2_show_tree_order ==
    (last_event.event = "click" /\ Truthy(last_event.value)) =>
        LET id == last_event.value
            layer == last_event.layer
            properties == LayerProperties(layer)
        IN  /\ track_id = id
            /\ last_event.n >= 1
            /\ Len(DirectCalls) = 6 * last_event.n
            /\ \A r \in 0..(last_event.n - 1) :
                   /\ DirectCalls[6 * r + 1].call = "plotter.draw_tree"
                   /\ DirectCalls[6 * r + 1].id = id
                   /\ DirectCalls[6 * r + 2].call = "self.track_id"
                   /\ DirectCalls[6 * r + 2].id = id
                   /\ DirectCalls[6 * r + 3].call = "property_plotter.plot"
                   /\ DirectCalls[6 * r + 3].t =
                          SeriesOfTrack(properties, "t", id)
                   /\ DirectCalls[6 * r + 3].prop =
                          SeriesOfTrack(properties, color_by[layer], id)
                   /\ DirectCalls[6 * r + 4].call = "property_plotter.set_xlabel"
                   /\ DirectCalls[6 * r + 4].label = "Time"
                   /\ DirectCalls[6 * r + 5].call = "property_plotter.set_ylabel"
                   /\ DirectCalls[6 * r + 5].label = color_by[layer]
                   /\ DirectCalls[6 * r + 6].call = "self.draw_current_time_line"

\* a track of a layer coloured by another property has been clicked and its
\* series plotted
C2_witness ==
    /\ last_event.event = "click"
    /\ last_event.layer = "T1"
    /\ last_event.value = 1
    /\ last_event.n = 1
    /\ color_by["T1"] = "state"
    /\ track_id = 1
    /\ Len(calls) = 7
    /\ calls[3].t = <<0, 1>>
    /\ calls[3].prop = <<0, 1>>
    /\ calls[7].call = "plotter.draw_current_time_line"
    /\ calls[7].id = current_step

-----------------------------------------------------------------------------
(* Properties of the workers of build_plugin_v2 *)

\* the GUI thread has finished the handler of worker w's `returned` signal
Handled(w, kind) ==
    /\ main.pc = "idle"
    /\ main.handling = w
    /\ workers[w].kind = kind

\* C3: a click on the track button while arbor.localizations is not None
\* runs a tracking, and when its worker returns a Tracks layer built from the
\* tracks of that tracking run is added to the viewer.
C3_tracking_result_is_shown ==
    \A w \in 1..Len(workers) :
        (Handled(w, "track") /\ IsSome(workers[w].tracker_state)) =>
            \E k \in 1..Len(main.added) :
                /\ main.added[k].kind = "Tracks"
                /\ main.added[k].data = The(workers[w].tracker_state)

\* C4: a click on the load button with arbor.filename set starts an import
\* worker; the layers are added only after that worker has stored both
\* arbor.segmentation and arbor.tracks, and on its return exactly one labels
\* layer named 'Segmentation' (if the loaded segmentation is not None) and
\* exactly one Tracks layer per loaded track set, in track-set order, are
\* added to the viewer.
C4_import_adds_the_loaded_layers ==
    \A w \in 1..Len(workers) :
        (main.handling = w /\ workers[w].kind = "import"
            /\ IsSome(workers[w].loaded)) =>
            LET loaded == The(workers[w].loaded)
                n_seg == IF IsSome(loaded.seg) THEN 1 ELSE 0
            IN  /\ workers[w].pc = "returned"
                /\ main.pc = "idle" =>
                    /\ Len(main.added) = n_seg + Len(loaded.tracks)
                    /\ n_seg = 1 =>
                        /\ main.added[1].kind = "Labels"
                        /\ main.added[1].name = PlainName("Segmentation")
                    /\ \A k \in 1..Len(loaded.tracks) :
                        /\ main.added[n_seg + k].kind = "Tracks"
                        /\ main.added[n_seg + k].data = loaded.tracks[k]

=============================================================================
